---- MODULE Spec2Model ----
(***************************************************************************)
(* Model of src/utils.cc of minio-cpp: the header/query Multimap with its  *)
(* SigV4 canonicalization routines, and the multipart planner CalcPartInfo.*)
(*                                                                         *)
(* A std::string is a sequence of byte values (ASCII codes), so that       *)
(* lower-casing, byte-wise ordering, joining and escaping are computed and *)
(* not assumed.  A std::set<std::string> is a set of such sequences and    *)
(* its iteration order is the ascending byte-wise order; a std::map is a   *)
(* function whose DOMAIN is the set of keys present, iterated in the same  *)
(* order.  std::list and std::vector are sequences.                        *)
(***************************************************************************)
EXTENDS Integers, Sequences, FiniteSets, TLC

VARIABLES
  map_,               \* Multimap::map_  : original-case key -> set of values
  keys_,              \* Multimap::keys_ : lower-case key -> set of spellings
  added,              \* history: the keys passed to Add / carried by AddAll
  op,                 \* the member function that ran last
  arg,                \* its key argument (<<>> when it takes none)
  result,             \* its return value (<<>> for void)
  signed_headers,     \* out-parameter of GetCanonicalHeaders
  canonical_headers,  \* out-parameter of GetCanonicalHeaders
  object_size,        \* CalcPartInfo: argument
  in_part_size,       \* CalcPartInfo: part_size as the caller passed it
  part_size,          \* CalcPartInfo: in/out reference parameter
  part_count,         \* CalcPartInfo: out reference parameter
  step5_part_size,    \* CalcPartInfo: part_size when line 503 is reached
  err,                \* CalcPartInfo: the error returned
  pc                  \* CalcPartInfo: "call" before, "done" after the call

mmvars == <<map_, keys_, added, op, arg, result, signed_headers,
            canonical_headers>>
ppvars == <<object_size, in_part_size, part_size, part_count,
            step5_part_size, err, pc>>
vars == <<map_, keys_, added, op, arg, result, signed_headers,
          canonical_headers, object_size, in_part_size, part_size,
          part_count, step5_part_size, err, pc>>

----------------------------------------------------------------------------
(* Bounds of the model.                                                    *)

\* most (key, value) pairs a Multimap holds
MaxPairs == 3
\* most keys of the Multimap passed to AddAll
MaxOtherKeys == 1
\* how far beyond the service limits the planner's arguments range
MaxOver == 1

----------------------------------------------------------------------------
(* Strings.                                                                *)

Range(s) == {s[i] : i \in 1..Len(s)}

\* ::tolower in the C locale, applied to every byte
ToLower(str) ==
  [i \in 1..Len(str) |->
     IF str[i] >= 65 /\ str[i] <= 90 THEN str[i] + 32 ELSE str[i]]

\* std::string operator< : lexicographic, byte-wise
RECURSIVE StrLess(_, _)
StrLess(a, b) ==
  IF b = <<>> THEN FALSE
  ELSE IF a = <<>> THEN TRUE
  ELSE IF a[1] # b[1] THEN a[1] < b[1]
  ELSE StrLess(Tail(a), Tail(b))

\* the least string of a non-empty set
MinStr(S) == CHOOSE x \in S : \A y \in S \ {x} : StrLess(x, y)

\* iteration order of a std::set<std::string> / the keys of a std::map
RECURSIVE Ordered(_)
Ordered(S) ==
  IF S = {} THEN <<>>
  ELSE LET m == MinStr(S) IN <<m>> \o Ordered(S \ {m})

\* insertion of one string into an ascending vector
RECURSIVE InsertSorted(_, _)
InsertSorted(x, v) ==
  IF v = <<>> THEN <<x>>
  ELSE IF StrLess(x, v[1]) THEN <<x>> \o v
  ELSE <<v[1]>> \o InsertSorted(x, Tail(v))

\* std::sort(v.begin(), v.end()) on a vector of strings
RECURSIVE Sort(_)
Sort(v) ==
  IF v = <<>> THEN <<>>
  ELSE InsertSorted(v[1], Sort(Tail(v)))

\* utils::Join(values, delimiter)
RECURSIVE JoinFrom(_, _, _, _)
JoinFrom(values, delimiter, i, acc) ==
  IF i > Len(values) THEN acc
  ELSE JoinFrom(values, delimiter, i + 1,
                (IF acc # <<>> THEN acc \o delimiter ELSE acc) \o values[i])

Join(values, delimiter) == JoinFrom(values, delimiter, 1, <<>>)

\* std::regex_replace(v, MULTI_SPACE_REGEX, " ") with the regex "( +)":
\* every maximal run of spaces becomes one space
RECURSIVE CollapseFrom(_, _)
CollapseFrom(v, i) ==
  IF i > Len(v) THEN <<>>
  ELSE IF v[i] = 32 /\ i > 1 /\ v[i - 1] = 32 THEN CollapseFrom(v, i + 1)
  ELSE <<v[i]>> \o CollapseFrom(v, i + 1)

CollapseSpaces(v) == CollapseFrom(v, 1)

\* curlpp::escape: RFC 3986 unreserved bytes are kept, any other byte is
\* written as '%' and two upper-case hex digits
HexDigit(d) == IF d < 10 THEN 48 + d ELSE 55 + d

Unreserved(c) ==
  \/ c >= 65 /\ c <= 90
  \/ c >= 97 /\ c <= 122
  \/ c >= 48 /\ c <= 57
  \/ c \in {45, 46, 95, 126}

RECURSIVE Escape(_)
Escape(s) ==
  IF s = <<>> THEN <<>>
  ELSE (IF Unreserved(s[1]) THEN <<s[1]>>
        ELSE <<37, HexDigit(s[1] \div 16), HexDigit(s[1] % 16)>>)
       \o Escape(Tail(s))

\* std::map::operator[] : the map after the access, which default-constructs
\* an empty set for a key that is absent
Subscript(m, k) == IF k \in DOMAIN m THEN m ELSE (k :> {}) @@ m

----------------------------------------------------------------------------
(* The strings the model draws its inputs from.                            *)

Str_A          == <<65>>                                      \* "A"
Str_a          == <<97>>                                      \* "a"
Str_a_b        == <<97, 45, 98>>                              \* "a-b"
Str_Authorization ==                                          \* "Authorization"
  <<65, 117, 116, 104, 111, 114, 105, 122, 97, 116, 105, 111, 110>>
Str_User_Agent ==                                             \* "User-Agent"
  <<85, 115, 101, 114, 45, 65, 103, 101, 110, 116>>
Str_v          == <<118>>                                     \* "v"
Str_w__x       == <<119, 32, 32, 120>>                        \* "w  x"

authorization  == ToLower(Str_Authorization)                  \* "authorization"
user_agent     == ToLower(Str_User_Agent)                     \* "user-agent"

KeySet == {Str_A, Str_a, Str_a_b, Str_Authorization, Str_User_Agent}
ValueSet == {Str_v, Str_w__x}
\* the keys of the Multimaps passed to AddAll
OtherKeySet == {Str_a, Str_a_b, Str_Authorization}

EmptyMap == [k \in {} |-> {}]

\* number of (key, value) pairs stored in a map_
Pairs(m) == Cardinality(UNION {{<<k, v>> : v \in m[k]} : k \in DOMAIN m})

----------------------------------------------------------------------------
(* Multimap: the member functions as functions of (map_, keys_).           *)

\* map_[key].insert(value)
MapInsert(m, key, value) ==
  [Subscript(m, key) EXCEPT ![key] = @ \cup {value}]

\* map_[key].insert(values.begin(), values.end())
MapInsertAll(m, key, values) ==
  [Subscript(m, key) EXCEPT ![key] = @ \cup values]

\* keys_[ToLower(key)].insert(key)
KeysInsert(ks, key) ==
  [Subscript(ks, ToLower(key)) EXCEPT ![ToLower(key)] = @ \cup {key}]

\* the loop of AddAll over the copy m of headers.map_, from position i of
\* its keys in iteration order
RECURSIVE AddAllLoop(_, _, _, _, _)
AddAllLoop(m, order, i, mp, ks) ==
  IF i > Len(order) THEN [map_ |-> mp, keys_ |-> ks]
  ELSE AddAllLoop(m, order, i + 1,
                  MapInsertAll(mp, order[i], m[order[i]]),
                  KeysInsert(ks, order[i]))

\* the lines or pairs one key contributes, one per value in set order
RECURSIVE PerValue(_, _, _, _)
PerValue(key, sep, values, i) ==
  IF i > Len(values) THEN <<>>
  ELSE <<key \o sep \o values[i]>> \o PerValue(key, sep, values, i + 1)

\* ToHttpHeaders: "key: value" for every key of map_ and every value of it
RECURSIVE HttpHeadersLoop(_, _, _)
HttpHeadersLoop(m, order, i) ==
  IF i > Len(order) THEN <<>>
  ELSE PerValue(order[i], <<58, 32>>, Ordered(m[order[i]]), 1)
       \o HttpHeadersLoop(m, order, i + 1)

ToHttpHeaders(m) == HttpHeadersLoop(m, Ordered(DOMAIN m), 1)

\* escape(key) + "=" + escape(value) for every value, in set order
RECURSIVE EscapedPairs(_, _, _)
EscapedPairs(key, values, i) ==
  IF i > Len(values) THEN <<>>
  ELSE <<Escape(key) \o <<61>> \o Escape(values[i])>>
       \o EscapedPairs(key, values, i + 1)

RECURSIVE QueryLoop(_, _, _)
QueryLoop(m, order, i) ==
  IF i > Len(order) THEN <<>>
  ELSE EscapedPairs(order[i], Ordered(m[order[i]]), 1)
       \o QueryLoop(m, order, i + 1)

\* ToQueryString: the pairs in map_ order, '&' between them
ToQueryString(m) == Join(QueryLoop(m, Ordered(DOMAIN m), 1), <<38>>)

\* Contains: keys_.find(ToLower(key)) != keys_.end()
Contains(ks, key) == ToLower(key) \in DOMAIN ks

\* the loop of Get over the copied set of spellings: map_[key] is read with
\* operator[], and its values are appended to result
RECURSIVE GetLoop(_, _, _, _)
GetLoop(mp, order, i, res) ==
  IF i > Len(order) THEN [map_ |-> mp, result |-> res]
  ELSE LET m1 == Subscript(mp, order[i])
       IN GetLoop(m1, order, i + 1, res \o Ordered(m1[order[i]]))

\* Get: keys_[ToLower(key)] is read with operator[]
Get(mp, ks, key) ==
  LET ks1 == Subscript(ks, ToLower(key))
      r == GetLoop(mp, Ordered(ks1[ToLower(key)]), 1, <<>>)
  IN [map_ |-> r.map_, keys_ |-> ks1, result |-> r.result]

\* GetFront: the front of Get(key), or "" when Get(key) is empty
GetFront(mp, ks, key) ==
  LET g == Get(mp, ks, key)
  IN [map_ |-> g.map_, keys_ |-> g.keys_,
      result |-> IF Len(g.result) > 0 THEN g.result[1] ELSE <<>>]

\* Keys: the keys of keys_ in iteration order
Keys(ks) == Ordered(DOMAIN ks)

\* the inner loop of GetCanonicalHeaders: the values of one key, each with
\* its runs of spaces collapsed, ',' between them
RECURSIVE CanonicalValue(_, _, _)
CanonicalValue(values, i, value) ==
  IF i > Len(values) THEN value
  ELSE CanonicalValue(values, i + 1,
         (IF value # <<>> THEN value \o <<44>> ELSE value)
           \o CollapseSpaces(values[i]))

\* Skipped with the key compared as spelled, not lower-cased
Skipped_AsSpelled(k) == authorization = k \/ user_agent = k

\* the test that skips a key of map_ in GetCanonicalHeaders
Skipped(k) == authorization = ToLower(k) \/ user_agent = ToLower(k)

\* the outer loop of GetCanonicalHeaders over map_: builds
\* signed_headerslist and the local std::map from lower-case key to value
RECURSIVE CanonicalLoop(_, _, _, _, _)
CanonicalLoop(m, order, i, list, map) ==
  IF i > Len(order) THEN [signed_headerslist |-> list, map |-> map]
  ELSE LET k == order[i]
           key == ToLower(k)
       IN IF Skipped(k) THEN CanonicalLoop(m, order, i + 1, list, map)
          ELSE CanonicalLoop(m, order, i + 1,
                 IF key \in Range(list) THEN list ELSE Append(list, key),
                 (key :> CanonicalValue(Ordered(m[k]), 1, <<>>)) @@ map)

\* canonical_headerslist: key + ":" + value for every entry of the local map
RECURSIVE CanonicalLines(_, _, _)
CanonicalLines(map, order, i) ==
  IF i > Len(order) THEN <<>>
  ELSE <<order[i] \o <<58>> \o map[order[i]]>>
       \o CanonicalLines(map, order, i + 1)

\* the order of the names in signed_headers
SignedOrder(list) == Sort(list)

\* the order of the lines in canonical_headers
LineOrder(lines) == Sort(lines)

GetCanonicalHeaders(m) ==
  LET c == CanonicalLoop(m, Ordered(DOMAIN m), 1, <<>>, EmptyMap)
      lines == CanonicalLines(c.map, Ordered(DOMAIN c.map), 1)
  IN [signed_headers |-> Join(SignedOrder(c.signed_headerslist), <<59>>),
      canonical_headers |-> Join(LineOrder(lines), <<10>>)]

\* the second loop of GetCanonicalQueryString over the sorted keys: map_[key]
\* is read with operator[]
RECURSIVE CanonicalQueryLoop(_, _, _, _)
CanonicalQueryLoop(mp, keys, i, values) ==
  IF i > Len(keys) THEN [map_ |-> mp, values |-> values]
  ELSE LET m1 == Subscript(mp, keys[i])
       IN CanonicalQueryLoop(m1, keys, i + 1,
            values \o EscapedPairs(keys[i], Ordered(m1[keys[i]]), 1))

GetCanonicalQueryString(mp) ==
  LET r == CanonicalQueryLoop(mp, Sort(Ordered(DOMAIN mp)), 1, <<>>)
  IN [map_ |-> r.map_, result |-> Join(r.values, <<38>>)]

----------------------------------------------------------------------------
(* Multimap: the state machine.  Every action is one call of a member      *)
(* function on the one Multimap; op, arg, result and the two out-parameters*)
(* describe the call that ran last (they are empty where it has none).     *)

\* the Multimaps passed to AddAll: a map_ as Add builds it, every key with a
\* non-empty set of values
OtherMaps ==
  UNION {[D -> (SUBSET ValueSet) \ {{}}] :
           D \in {X \in SUBSET OtherKeySet : Cardinality(X) <= MaxOtherKeys}}

MultimapInit ==
  /\ map_ = EmptyMap
  /\ keys_ = EmptyMap
  /\ added = {}
  /\ op = "Multimap"
  /\ arg = <<>>
  /\ result = <<>>
  /\ signed_headers = <<>>
  /\ canonical_headers = <<>>

PlannerIdle ==
  /\ object_size = 0
  /\ in_part_size = 0
  /\ part_size = 0
  /\ part_count = 0
  /\ step5_part_size = 0
  /\ err = ""
  /\ pc = "idle"

Init == MultimapInit /\ PlannerIdle

Add ==
  \E key \in KeySet, value \in ValueSet :
    /\ Pairs(MapInsert(map_, key, value)) <= MaxPairs
    /\ map_' = MapInsert(map_, key, value)
    /\ keys_' = KeysInsert(keys_, key)
    /\ added' = added \cup {key}
    /\ op' = "Add"
    /\ arg' = key
    /\ result' = <<>>
    /\ signed_headers' = <<>>
    /\ canonical_headers' = <<>>
    /\ UNCHANGED ppvars

AddAll ==
  \E headers \in OtherMaps :
    LET r == AddAllLoop(headers, Ordered(DOMAIN headers), 1, map_, keys_)
    IN /\ Pairs(r.map_) <= MaxPairs
       /\ map_' = r.map_
       /\ keys_' = r.keys_
       /\ added' = added \cup DOMAIN headers
       /\ op' = "AddAll"
       /\ arg' = <<>>
       /\ result' = <<>>
       /\ signed_headers' = <<>>
       /\ canonical_headers' = <<>>
       /\ UNCHANGED ppvars

CallToHttpHeaders ==
  /\ op' = "ToHttpHeaders"
  /\ arg' = <<>>
  /\ result' = ToHttpHeaders(map_)
  /\ signed_headers' = <<>>
  /\ canonical_headers' = <<>>
  /\ UNCHANGED <<map_, keys_, added>>
  /\ UNCHANGED ppvars

CallToQueryString ==
  /\ op' = "ToQueryString"
  /\ arg' = <<>>
  /\ result' = ToQueryString(map_)
  /\ signed_headers' = <<>>
  /\ canonical_headers' = <<>>
  /\ UNCHANGED <<map_, keys_, added>>
  /\ UNCHANGED ppvars

CallContains ==
  \E key \in KeySet :
    /\ op' = "Contains"
    /\ arg' = key
    /\ result' = Contains(keys_, key)
    /\ signed_headers' = <<>>
    /\ canonical_headers' = <<>>
    /\ UNCHANGED <<map_, keys_, added>>
    /\ UNCHANGED ppvars

CallGet ==
  \E key \in KeySet :
    LET g == Get(map_, keys_, key)
    IN /\ map_' = g.map_
       /\ keys_' = g.keys_
       /\ op' = "Get"
       /\ arg' = key
       /\ result' = g.result
       /\ signed_headers' = <<>>
       /\ canonical_headers' = <<>>
       /\ UNCHANGED added
       /\ UNCHANGED ppvars

CallGetFront ==
  \E key \in KeySet :
    LET g == GetFront(map_, keys_, key)
    IN /\ map_' = g.map_
       /\ keys_' = g.keys_
       /\ op' = "GetFront"
       /\ arg' = key
       /\ result' = g.result
       /\ signed_headers' = <<>>
       /\ canonical_headers' = <<>>
       /\ UNCHANGED added
       /\ UNCHANGED ppvars

CallKeys ==
  /\ op' = "Keys"
  /\ arg' = <<>>
  /\ result' = Keys(keys_)
  /\ signed_headers' = <<>>
  /\ canonical_headers' = <<>>
  /\ UNCHANGED <<map_, keys_, added>>
  /\ UNCHANGED ppvars

CallGetCanonicalHeaders ==
  LET c == GetCanonicalHeaders(map_)
  IN /\ op' = "GetCanonicalHeaders"
     /\ arg' = <<>>
     /\ result' = <<>>
     /\ signed_headers' = c.signed_headers
     /\ canonical_headers' = c.canonical_headers
     /\ UNCHANGED <<map_, keys_, added>>
     /\ UNCHANGED ppvars

CallGetCanonicalQueryString ==
  LET q == GetCanonicalQueryString(map_)
  IN /\ map_' = q.map_
     /\ op' = "GetCanonicalQueryString"
     /\ arg' = <<>>
     /\ result' = q.result
     /\ signed_headers' = <<>>
     /\ canonical_headers' = <<>>
     /\ UNCHANGED <<keys_, added>>
     /\ UNCHANGED ppvars

Next ==
  \/ Add
  \/ AddAll
  \/ CallToHttpHeaders
  \/ CallToQueryString
  \/ CallContains
  \/ CallGet
  \/ CallGetFront
  \/ CallKeys
  \/ CallGetCanonicalHeaders
  \/ CallGetCanonicalQueryString

Spec == Init /\ [][Next]_vars

----------------------------------------------------------------------------
(* Part planner.  The limits are those of utils.h, which src/ does not     *)
(* hold (5 MiB, 5 GiB, 5 TiB and 10000 in the messages and the             *)
(* specification), scaled down so that every argument can be enumerated:   *)
(* the unit of size is 1 MiB for kMinPartSize, and the other three keep    *)
(* their order  kMinPartSize < kMaxPartSize < kMaxObjectSize,              *)
(* kMinPartSize * kMaxMultipartCount < kMaxObjectSize  (so that a chosen   *)
(* part size is a multiple of kMinPartSize above the first) and            *)
(* kMaxObjectSize < kMaxPartSize * kMaxMultipartCount.                     *)

kMinPartSize == 5
kMaxPartSize == 20
kMaxObjectSize == 160
kMaxMultipartCount == 10

\* std::ceil((double)a / b) for a >= 0, b > 0; every value is below 2^53,
\* where the double quotient rounds as the exact one does
CeilDiv(a, b) == (a + b - 1) \div b

\* RangeError without the check of lines 487-490
RangeError_NoRequired(osize, psize) ==
  IF psize > 0 /\ psize < kMinPartSize THEN "PartSizeTooSmall"
  ELSE IF psize > 0 /\ psize > kMaxPartSize THEN "PartSizeTooLarge"
  ELSE IF osize >= 0 /\ osize > kMaxObjectSize THEN "ObjectTooLarge"
  ELSE ""

\* lines 470-490: the checks that run first; "" when all pass
RangeError(osize, psize) ==
  IF psize > 0 /\ psize < kMinPartSize THEN "PartSizeTooSmall"
  ELSE IF psize > 0 /\ psize > kMaxPartSize THEN "PartSizeTooLarge"
  ELSE IF osize >= 0 /\ osize > kMaxObjectSize THEN "ObjectTooLarge"
  ELSE IF osize < 0 /\ psize <= 0 THEN "PartSizeRequired"
  ELSE ""

\* ChoosePartSize with the second std::ceil left out (truncating division)
ChoosePartSize_Floor(osize, psize) ==
  IF psize <= 0
  THEN (CeilDiv(osize, kMaxMultipartCount) \div kMinPartSize) * kMinPartSize
  ELSE psize

\* lines 497-501: the part size chosen when the caller gave none
ChoosePartSize(osize, psize) ==
  IF psize <= 0
  THEN CeilDiv(CeilDiv(osize, kMaxMultipartCount), kMinPartSize) * kMinPartSize
  ELSE psize

\* ClampPartSize with line 503 left out
ClampPartSize_None(osize, psize) == psize

\* line 503
ClampPartSize(osize, psize) == IF psize > osize THEN osize ELSE psize

\* lines 504-505
CountParts(osize, psize) == IF psize > 0 THEN CeilDiv(osize, psize) ELSE 1

\* CountError with the limit off by one
CountError_OffByOne(count) ==
  IF count > kMaxMultipartCount + 1 THEN "TooManyParts" ELSE ""

\* lines 506-511
CountError(count) ==
  IF count > kMaxMultipartCount THEN "TooManyParts" ELSE ""

\* CalcPartInfo(object_size, part_size, part_count): the error returned and
\* the values the two reference parameters and part_size at line 503 hold
\* on return (count is part_count before the call)
CalcPartInfo(osize, psize, count) ==
  IF RangeError(osize, psize) # ""
  THEN [err |-> RangeError(osize, psize), part_size |-> psize,
        part_count |-> count, step5 |-> psize]
  ELSE IF osize < 0
  THEN [err |-> "", part_size |-> psize, part_count |-> -1, step5 |-> psize]
  ELSE LET chosen == ChoosePartSize(osize, psize)
           clamped == ClampPartSize(osize, chosen)
           n == CountParts(osize, clamped)
       IN [err |-> CountError(n), part_size |-> clamped, part_count |-> n,
           step5 |-> chosen]

PlannerInit ==
  /\ MultimapInit
  /\ object_size \in (0 - 1 - MaxOver)..(kMaxObjectSize + MaxOver)
  /\ in_part_size \in 0..(kMaxPartSize + MaxOver)
  /\ part_size = in_part_size
  /\ part_count = 0
  /\ step5_part_size = in_part_size
  /\ err = ""
  /\ pc = "call"

CallCalcPartInfo ==
  /\ pc = "call"
  /\ LET r == CalcPartInfo(object_size, part_size, part_count)
     IN /\ err' = r.err
        /\ part_size' = r.part_size
        /\ part_count' = r.part_count
        /\ step5_part_size' = r.step5
  /\ pc' = "done"
  /\ UNCHANGED <<object_size, in_part_size>>
  /\ UNCHANGED mmvars

PlannerNext == CallCalcPartInfo

PlannerSpec == PlannerInit /\ [][PlannerNext]_vars

----------------------------------------------------------------------------
(* Reading the strings GetCanonicalHeaders produces.                       *)

\* position of the first byte c of s at or after i, Len(s) + 1 if none
RECURSIVE Find(_, _, _)
Find(s, c, i) ==
  IF i > Len(s) THEN Len(s) + 1
  ELSE IF s[i] = c THEN i
  ELSE Find(s, c, i + 1)

\* the fields of s between the separators c; no field for the empty string
RECURSIVE Split(_, _)
Split(s, c) ==
  IF s = <<>> THEN <<>>
  ELSE LET j == Find(s, c, 1)
       IN IF j > Len(s) THEN <<s>>
          ELSE <<SubSeq(s, 1, j - 1)>> \o
               (IF j = Len(s) THEN <<<<>>>> ELSE Split(SubSeq(s, j + 1, Len(s)), c))

\* the names of signed_headers and the lines of canonical_headers
SignedNames == Split(signed_headers, 59)
CanonicalLineSeq == Split(canonical_headers, 10)

\* "key:value": the part before and the part after the first ':'
LineKey(line) == SubSeq(line, 1, Find(line, 58, 1) - 1)
LineValue(line) == SubSeq(line, Find(line, 58, 1) + 1, Len(line))

\* the spellings stored in map_ that lower-case as key does
Spellings(key) == {k \in DOMAIN map_ : ToLower(k) = ToLower(key)}

\* the values stored in map_ under any spelling of key
StoredValues(key) == UNION {map_[k] : k \in Spellings(key)}

\* the lower-case keys GetCanonicalHeaders is to sign
SignedKeys == {ToLower(k) : k \in DOMAIN map_} \ {authorization, user_agent}

ReadOps == {"Contains", "Get", "GetFront", "Keys", "ToHttpHeaders",
            "ToQueryString", "GetCanonicalHeaders", "GetCanonicalQueryString"}

----------------------------------------------------------------------------
(* Claims about the Multimap, under Spec.                                  *)

\* C1: in every reachable state Contains(key) is true exactly when some
\* spelling of key was added by Add or AddAll, whatever was read before.
C1_ContainsIffAdded ==
  \A key \in KeySet :
    Contains(keys_, key) <=> (\E s \in added : ToLower(s) = ToLower(key))

\* C2: a call of a read operation leaves the entries map and the lower-case
\* key index unchanged; only Add and AddAll change a Multimap.
C2_ReadersChangeNothing ==
  [][op' \in ReadOps => (map_' = map_ /\ keys_' = keys_)]_vars

\* C3: Get(key) returns the union of the values stored under all spellings
\* of key, and no value twice.
C3_GetUnionNoDuplicates ==
  op = "Get" =>
    /\ Range(result) = StoredValues(arg)
    /\ Cardinality(Range(result)) = Len(result)

\* C4: canonical_headers has one line per name of signed_headers, and the
\* lines are in the order of the names.
C4_LinesInSignedOrder ==
  op = "GetCanonicalHeaders" =>
    /\ Len(CanonicalLineSeq) = Len(SignedNames)
    /\ \A i \in 1..Len(SignedNames) :
         i <= Len(CanonicalLineSeq) =>
           LineKey(CanonicalLineSeq[i]) = SignedNames[i]

C10_LineHoldsEveryValue ==
  op = "GetCanonicalHeaders" =>
    \A key \in SignedKeys :
      \E i \in 1..Len(CanonicalLineSeq) :
        /\ LineKey(CanonicalLineSeq[i]) = key
        /\ Range(Split(LineValue(CanonicalLineSeq[i]), 44)) =
             {CollapseSpaces(v) : v \in StoredValues(key)}

----------------------------------------------------------------------------
(* Claims about CalcPartInfo, under PlannerSpec.                           *)

\* the checks of lines 470-490 pass for the arguments of the call
ArgsInRange ==
  /\ in_part_size = 0 \/ (in_part_size >= kMinPartSize /\ in_part_size <= kMaxPartSize)
  /\ object_size <= kMaxObjectSize

\* n = ceil(osize / psize), stated without division
IsCeil(n, osize, psize) == (n - 1) * psize < osize /\ osize <= n * psize

\* C6: with object_size in 1..kMaxObjectSize and part_size = 0 the call
\* succeeds, the part size at step 5 is the smallest positive multiple of
\* kMinPartSize that keeps the count within kMaxMultipartCount, and
\* part_count = ceil(object_size / part_size) <= kMaxMultipartCount.
C6_SmallestAlignedPartSize ==
  (pc = "done" /\ in_part_size = 0
     /\ object_size >= 1 /\ object_size <= kMaxObjectSize) =>
    /\ err = ""
    /\ step5_part_size > 0
    /\ step5_part_size % kMinPartSize = 0
    /\ object_size <= kMaxMultipartCount * step5_part_size
    /\ \A p \in 1..(step5_part_size - 1) :
         p % kMinPartSize = 0 => object_size > kMaxMultipartCount * p
    /\ IsCeil(part_count, object_size, part_size)
    /\ part_count <= kMaxMultipartCount

\* C6 witness: a chosen part size above kMinPartSize that yields exactly
\* kMaxMultipartCount parts.
C6_Witness ==
  /\ pc = "done" /\ in_part_size = 0 /\ err = ""
  /\ object_size >= 1 /\ object_size <= kMaxObjectSize
  /\ step5_part_size > kMinPartSize
  /\ part_size = step5_part_size
  /\ part_count = kMaxMultipartCount

\* C7 as stated: every (object_size, part_size) whose part count exceeds
\* kMaxMultipartCount fails with TooManyParts, and every success with a
\* known object_size has 1 <= part_count <= kMaxMultipartCount.
C7_TooManyPartsAlways ==
  pc = "done" =>
    /\ (in_part_size > 0 /\ object_size >= 0
          /\ object_size > kMaxMultipartCount * in_part_size)
         => err = "TooManyParts"
    /\ (err = "" /\ object_size >= 0)
         => (part_count >= 1 /\ part_count <= kMaxMultipartCount)

\* C7 amended: every (object_size, part_size) that passes the range checks
\* and whose part count exceeds kMaxMultipartCount fails with TooManyParts;
\* one that does not pass them fails with the error of the first range
\* check it breaks; every success with a known object_size has
\* 1 <= part_count <= kMaxMultipartCount.
C7_TooManyPartsInRange ==
  pc = "done" =>
    /\ (in_part_size > 0 /\ object_size >= 0
          /\ object_size > kMaxMultipartCount * in_part_size)
         => err = (IF in_part_size < kMinPartSize THEN "PartSizeTooSmall"
                   ELSE IF in_part_size > kMaxPartSize THEN "PartSizeTooLarge"
                   ELSE IF object_size > kMaxObjectSize THEN "ObjectTooLarge"
                   ELSE "TooManyParts")
    /\ (err = "" /\ object_size >= 0)
         => (part_count >= 1 /\ part_count <= kMaxMultipartCount)

\* C7 witness: a call with arguments in range that fails with TooManyParts.
C7_Witness ==
  /\ pc = "done" /\ err = "TooManyParts"
  /\ ArgsInRange /\ in_part_size > 0
  /\ part_count > kMaxMultipartCount

\* C8: with a negative object_size the call fails with PartSizeRequired when
\* part_size = 0, and with part_size in kMinPartSize..kMaxPartSize succeeds
\* with part_count = -1 and part_size as passed; no success has a part size
\* the caller did not pass.
C8_UnknownSizeNeedsPartSize ==
  (pc = "done" /\ object_size < 0) =>
    /\ in_part_size = 0 => err = "PartSizeRequired"
    /\ (in_part_size >= kMinPartSize /\ in_part_size <= kMaxPartSize)
         => (err = "" /\ part_count = -1 /\ part_size = in_part_size)
    /\ err = "" => (in_part_size > 0 /\ part_size = in_part_size)

\* C8 witness: an unknown-size call with a valid part size has returned.
C8_Witness ==
  /\ pc = "done" /\ object_size < 0
  /\ in_part_size = kMaxPartSize
  /\ err = "" /\ part_count = -1 /\ part_size = kMaxPartSize

\* C9: with object_size in 0..kMaxObjectSize and a part size at step 5 above
\* object_size, the call succeeds with part_size = object_size and
\* part_count = 1; object_size = 0 with part_size = 0 succeeds with
\* part_size = 0 and part_count = 1.
C9_SinglePartWhenClamped ==
  (pc = "done" /\ object_size >= 0 /\ ArgsInRange) =>
    /\ step5_part_size > object_size
         => (err = "" /\ part_size = object_size /\ part_count = 1)
    /\ (object_size = 0 /\ in_part_size = 0)
         => (err = "" /\ part_size = 0 /\ part_count = 1)

\* C9 witness: a planner-chosen part size was clamped to a non-empty object.
C9_Witness ==
  /\ pc = "done" /\ in_part_size = 0
  /\ object_size >= 1 /\ step5_part_size > object_size
  /\ part_size = object_size /\ part_count = 1

====
